---- MODULE Spec2Model ----
(***************************************************************************)
(* Model of arianashafiee/tabnabbing-detect:                               *)
(*   make_icons.py            make_square (contain / cover) and main       *)
(*   tools/open_demo_tabs.py  the demo launcher main and its probe loop    *)
(*                                                                         *)
(* Python floats are IEEE-754 doubles.  The float expressions of the code  *)
(* (size / w, int(w * scale), and the aspect arithmetic of                 *)
(* Image.thumbnail) are computed here exactly as a double computes them,   *)
(* using only small integers: the remainder of the 53-bit long division    *)
(* tells which way a quotient was rounded and by how much.                 *)
(***************************************************************************)
EXTENDS Integers, Sequences, FiniteSets, TLC

\* ---------------------------------------------------------------- bounds
MaxDim == 12        \* source widths and heights range over 0..MaxDim ...
RoundingDim == 49   \* ... and the least w with w * (1 / w) < 1 as doubles
MaxSize == 15       \* target sizes range over -1..MaxSize

Dims == (0..MaxDim) \cup {RoundingDim}
Sizes == (-1)..MaxSize
Modes == {"contain", "cover", "COVER", "bogus-mode"}

\* ------------------------------------------------------ double arithmetic
Abs(i) == IF i < 0 THEN -i ELSE i
Min2(a, b) == IF a <= b THEN a ELSE b
Max2(a, b) == IF a >= b THEN a ELSE b

\* a local variable: v is evaluated once and F applied to its value
With(v, F(_)) == CHOOSE r \in {F(x) : x \in {v}} : TRUE

Pow2(e) == 2 ^ e

\* 2^e mod d for 0 <= e <= 60, in two factors that fit a machine integer
PowMod2(e, d) == ((2 ^ (e \div 2) % d) * (2 ^ (e - e \div 2) % d)) % d

\* floor(log2(n / d)) for n, d >= 1: the binary exponent of the double n/d
RECURSIVE FloorLog2(_, _)
FloorLog2(n, d) ==
  IF n >= 2 * d THEN 1 + FloorLog2(n, 2 * d)
  ELSE IF n < d THEN FloorLog2(2 * n, d) - 1
  ELSE 0

\* The double n / d (n, d >= 1) is (M + rnd) * 2^(k-52) where
\* n * 2^(52-k) = M * d + r.  FloatDiv gives k and the signed error of the
\* quotient in units of 2^(k-52) / d: 0 when exact, -r when rounded down,
\* d - r when rounded up (a tie goes to the even mantissa).
FloatDivAt(n, d, k) ==
  LET r == ((n % d) * PowMod2(52 - k, d)) % d
      x == ((n % (2 * d)) * PowMod2(52 - k, 2 * d)) % (2 * d)
      odd == x >= d
      down == (2 * r < d) \/ (2 * r = d /\ ~odd)
  IN [k |-> k, err |-> IF r = 0 THEN 0 ELSE IF down THEN -r ELSE d - r]

FloatDiv(n, d) == With(FloorLog2(n, d), LAMBDA k : FloatDivAt(n, d, k))

\* round(m * n / d) to the nearest integer instead of int()
RoundMulDiv(m, n, d) == (2 * m * n + d) \div (2 * d)

\* int(m * (n / d)) for m, n, d >= 1, as doubles compute it.  The product
\* differs from floor(m*n/d) only when m*n/d is an integer T0, the quotient
\* was rounded down, and the product stays below T0 after rounding.
TruncMulAt(m, n, d, q) ==
  LET T0 == (m * n) \div d
      j == FloorLog2(T0, 1)
      half == IF T0 = Pow2(j) THEN 4 ELSE 2
  IN IF q.err >= 0 THEN T0
     ELSE IF half * m * (-q.err) > d * Pow2(j - q.k) THEN T0 - 1 ELSE T0

TruncMulDiv(m, n, d) ==
  IF (m * n) % d # 0 THEN (m * n) \div d
  ELSE With(FloatDiv(n, d), LAMBDA q : TruncMulAt(m, n, d, q))

\* err / d * 2^(k - kmin), over the common denominator D (a multiple of d)
ScaledErr(q, d, kmin, D) == q.err * (D \div d) * Pow2(q.k - kmin)

\* ------------------------------------------------------------ PIL images
\* An image is its width, its height and its pixels.  Pixels are kept as the
\* sequence of operations that produced them from the decoded source (the
\* empty sequence): two images are equal when they have equal sizes and
\* equal pixels.
Op(name, a, b, c) == [op |-> name, a |-> a, b |-> b, c |-> c]
Image(w, h, px) == [w |-> w, h |-> h, px |-> px]
NoImage == Image(-1, -1, <<>>)

\* the image itself instead of a converted copy
ConvertInPlace(im) == [fresh |-> FALSE, im |-> im]

\* img.convert("RGBA"): always a new image object with the same pixels
Convert(im) == [fresh |-> TRUE, im |-> im]

\* Image.resize((nw, nh), LANCZOS): a copy when the size is unchanged,
\* ValueError("height and width must be > 0") for an empty target
Resize(im, nw, nh) ==
  IF nw = im.w /\ nh = im.h THEN [status |-> "ok", im |-> im]
  ELSE IF nw < 1 \/ nh < 1 THEN [status |-> "ValueError", im |-> NoImage]
  ELSE [status |-> "ok",
        im |-> Image(nw, nh, Append(im.px, Op("resize", nw, nh, 0)))]

\* round_aspect(y * aspect, key = |aspect - n / y|) of Image.thumbnail, for
\* aspect = w / h <= 1: the nearer of floor and ceil, floor when the two
\* keys are equal as doubles, and at least 1
RoundAspectX(w, h, y) ==
  IF y < 0 \/ w = 0 THEN 1
  ELSE
    LET A == y * w
        fl == A \div h
        ce == fl + 1
        k1 == Abs(w * y - fl * h)
        k2 == Abs(w * y - ce * h)
        ea == FloatDiv(w, h)
        e1 == FloatDiv(fl, y)
        e2 == FloatDiv(ce, y)
        km == Min2(ea.k, Min2(e1.k, e2.k))
        D == h * y
        floorWins == 2 * ScaledErr(ea, h, km, D)
                       <= ScaledErr(e1, y, km, D) + ScaledErr(e2, y, km, D)
    IN IF A % h = 0 THEN Max2(fl, 1)
       ELSE IF k1 < k2 \/ fl = 0 THEN Max2(fl, 1)
       ELSE IF k2 < k1 THEN ce
       ELSE IF floorWins THEN fl ELSE ce

\* round_aspect(x / aspect, key = 0 if n == 0 else |aspect - x / n|), for
\* aspect = w / h > 1
RoundAspectY(w, h, x) ==
  IF x < 0 THEN 1
  ELSE
    LET A == x * h
        fl == A \div w
        ce == fl + 1
        a1 == Abs(w * fl - x * h) * ce
        a2 == Abs(w * ce - x * h) * fl
        ea == FloatDiv(w, h)
        e1 == FloatDiv(x, fl)
        e2 == FloatDiv(x, ce)
        km == Min2(ea.k, Min2(e1.k, e2.k))
        D == h * fl * ce
        floorWins == ScaledErr(e1, fl, km, D) + ScaledErr(e2, ce, km, D)
                       <= 2 * ScaledErr(ea, h, km, D)
    IN IF A % w = 0 \/ fl = 0 THEN Max2(fl, 1)
       ELSE IF a1 < a2 THEN fl
       ELSE IF a2 < a1 THEN ce
       ELSE IF floorWins THEN fl ELSE ce

\* the resize at the end of Image.thumbnail: the image takes the resized
\* pixels and size; an exception leaves it as it was
ResizeInPlace(im, nw, nh) ==
  IF Resize(im, nw, nh).status = "ok" THEN Resize(im, nw, nh)
  ELSE [status |-> Resize(im, nw, nh).status, im |-> im]

\* thumbnail with the aspect test inverted
ThumbnailSwapped(im, size) ==
  IF size >= im.w /\ size >= im.h THEN [status |-> "ok", im |-> im]
  ELSE IF im.h = 0 \/ size = 0
    THEN [status |-> "ZeroDivisionError", im |-> im]
  ELSE IF im.w >= im.h
    THEN With(RoundAspectX(im.w, im.h, size),
              LAMBDA x : ResizeInPlace(im, x, size))
  ELSE With(IF im.w = 0 THEN 1 ELSE RoundAspectY(im.w, im.h, size),
            LAMBDA y : ResizeInPlace(im, size, y))

\* Image.thumbnail((size, size), LANCZOS): in place; never enlarges
Thumbnail(im, size) ==
  IF size >= im.w /\ size >= im.h THEN [status |-> "ok", im |-> im]
  ELSE IF im.h = 0 \/ size = 0
    THEN [status |-> "ZeroDivisionError", im |-> im]
  ELSE IF im.h >= im.w
    THEN With(RoundAspectX(im.w, im.h, size),
              LAMBDA x : ResizeInPlace(im, x, size))
  ELSE With(RoundAspectY(im.w, im.h, size),
            LAMBDA y : ResizeInPlace(im, size, y))

\* paste through the image's own alpha mask: blends instead of overwriting
PasteMasked(im, x, y, size) ==
  Image(size, size, Append(im.px, Op("paste", x, y, size)))

\* Image.new("RGBA", (size, size), (0, 0, 0, 0)) followed by
\* canvas.paste(im, (x, y)): a paste that covers the whole canvas leaves
\* exactly the pasted pixels
Paste(im, x, y, size) ==
  IF x = 0 /\ y = 0 /\ im.w = size /\ im.h = size THEN Image(size, size, im.px)
  ELSE Image(size, size, Append(im.px, Op("paste", x, y, size)))

\* img.crop((left, top, left + size, top + size)): always size x size; the
\* part of the box outside the image is transparent
Crop(im, left, top, size) ==
  IF left = 0 /\ top = 0 /\ im.w = size /\ im.h = size THEN im
  ELSE Image(size, size, Append(im.px, Op("crop", left, top, size)))

\* ----------------------------------------------------------- make_square
\* A call's outcome: the error raised or "ok", the image returned, the
\* caller's image after the call, and the geometry the call computed.
Outcome(status, out, src, nw, nh, x, y) ==
  [status |-> status, out |-> out, src |-> src,
   nw |-> nw, nh |-> nh, x |-> x, y |-> y]

\* mode matched without regard to case
NormModeAnyCase(mode) ==
  IF mode = "COVER" THEN "cover"
  ELSE IF mode \notin {"contain", "cover"} THEN "contain" ELSE mode

NormMode(mode) == IF mode \notin {"contain", "cover"} THEN "contain" ELSE mode

\* halving that rounds up
CeilDiv2(a) == (a + 1) \div 2

\* floor division of Python's // on a possibly negative numerator
FloorDiv2(a) == a \div 2

\* lines 20-24, once img.thumbnail has returned t
ContainPaste(img, size, fresh, t) ==
  LET after == IF fresh THEN img ELSE t.im
      x == FloorDiv2(size - t.im.w)
      y == FloorDiv2(size - t.im.h)
  IN IF t.status # "ok" THEN Outcome(t.status, NoImage, after, 0, 0, 0, 0)
     ELSE IF size < 0 THEN Outcome("ValueError", NoImage, after, 0, 0, 0, 0)
     ELSE Outcome("ok", Paste(t.im, x, y, size), after,
                  t.im.w, t.im.h, x, y)

Contain(img, size) ==
  With(Thumbnail(Convert(img).im, size),
       LAMBDA t : ContainPaste(img, size, Convert(img).fresh, t))

\* int(w * scale), int(h * scale) with scale = max(size / w, size / h)
CoverDims(w, h, size) ==
  IF size = 0 THEN <<0, 0>>
  ELSE IF size > 0
    THEN <<TruncMulDiv(w, size, Min2(w, h)), TruncMulDiv(h, size, Min2(w, h))>>
  ELSE <<-TruncMulDiv(w, -size, Max2(w, h)), -TruncMulDiv(h, -size, Max2(w, h))>>

\* lines 31-35, once nw, nh = d are computed
CoverCrop(img, size, d) ==
  LET r == Resize(Convert(img).im, d[1], d[2])
      left == FloorDiv2(d[1] - size)
      top == FloorDiv2(d[2] - size)
  IN IF r.status # "ok" THEN Outcome(r.status, NoImage, img, 0, 0, 0, 0)
     ELSE IF size < 0 THEN Outcome("ValueError", NoImage, img, 0, 0, 0, 0)
     ELSE Outcome("ok", Crop(r.im, left, top, size), img,
                  d[1], d[2], left, top)

Cover(img, size) ==
  IF img.w = 0 \/ img.h = 0
    THEN Outcome("ZeroDivisionError", NoImage, img, 0, 0, 0, 0)
  ELSE With(CoverDims(img.w, img.h, size), LAMBDA d : CoverCrop(img, size, d))

make_square(img, size, mode) ==
  IF NormMode(mode) = "contain" THEN Contain(img, size) ELSE Cover(img, size)

\* ------------------------------------------------- make_icons.py: main
VARIABLES opened, img, mode, size, square, again, ipc
ivars == <<opened, img, mode, size, square, again, ipc>>

NoCall == Outcome("none", NoImage, NoImage, 0, 0, 0, 0)

\* img = Image.open(src) and mode = sys.argv[3]; the decoded image has any
\* size, an empty one included
IconInit ==
  /\ \E w \in Dims, h \in Dims : opened = Image(w, h, <<>>)
  /\ img = opened
  /\ mode \in Modes
  /\ size = 0
  /\ square = NoCall
  /\ again = NoCall
  /\ ipc = "loop"

\* one iteration of main's loop: square = make_square(img, s, mode=mode);
\* an exception ends main
Fit(s) ==
  /\ ipc = "loop"
  /\ size' = s
  /\ square' = make_square(img, s, mode)
  /\ img' = square'.src
  /\ again' = NoCall
  /\ ipc' = IF square'.status = "ok" THEN "loop" ELSE "raised"
  /\ UNCHANGED <<opened, mode>>

\* make_square applied in contain mode to the square just returned
FitAgain ==
  /\ ipc = "loop"
  /\ square.status = "ok"
  /\ again = NoCall
  /\ again' = make_square(square.out, size, "contain")
  /\ UNCHANGED <<opened, img, mode, size, square, ipc>>

\* ------------------------------------------- tools/open_demo_tabs.py: main
\* Time is counted in sleeps of the probe loop (0.25 s).
SleepTicks == 1          \* time.sleep(0.25)
TimeoutTicks == 40       \* timeout=10
ProbeTicks == 6          \* urlopen(url, timeout=1.5)

VARIABLES lpc, portBusy, demoFound, chromeFound, server, elapsed, okAt, browser
lvars == <<lpc, portBusy, demoFound, chromeFound, server, elapsed, okAt, browser>>
vars == <<ivars, lvars>>

LauncherInit ==
  /\ lpc = "port_in_use"
  /\ portBusy \in BOOLEAN
  /\ demoFound \in BOOLEAN
  /\ chromeFound \in BOOLEAN
  /\ server = "none"
  /\ elapsed = 0
  /\ okAt = -1
  /\ browser = FALSE

\* if port_in_use(args.port): raise SystemExit
port_in_use ==
  /\ lpc = "port_in_use"
  /\ lpc' = IF portBusy THEN "exit_port" ELSE "find_demo_root"
  /\ UNCHANGED <<portBusy, demoFound, chromeFound, server, elapsed, okAt, browser>>

\* root = find_demo_root(): SystemExit when demo/ is not found
find_demo_root ==
  /\ lpc = "find_demo_root"
  /\ lpc' = IF demoFound THEN "start" ELSE "exit_root"
  /\ UNCHANGED <<portBusy, demoFound, chromeFound, server, elapsed, okAt, browser>>

\* t = threading.Thread(target=serve_forever, ...); t.start()
StartThread ==
  /\ lpc = "start"
  /\ server' = "starting"
  /\ lpc' = "wait"
  /\ UNCHANGED <<portBusy, demoFound, chromeFound, elapsed, okAt, browser>>

\* the daemon thread: ThreadingHTTPServer(...) binds and serves, or raises
\* and the thread ends
serve_forever ==
  /\ server = "starting"
  /\ server' \in {"serving", "failed"}
  /\ UNCHANGED <<lpc, portBusy, demoFound, chromeFound, elapsed, okAt, browser>>

\* one iteration of wait_http_ok's loop, entered while the time spent is
\* below the timeout: a probe that takes d ticks and returns 200 ends the
\* wait; any other status or an exception is followed by the sleep
Probe(d, ok) ==
  /\ lpc = "wait"
  /\ elapsed < TimeoutTicks
  /\ ok => server = "serving"
  /\ IF ok
       THEN /\ okAt' = elapsed
            /\ elapsed' = elapsed + d
            /\ lpc' = "launch"
       ELSE /\ okAt' = okAt
            /\ elapsed' = elapsed + d + SleepTicks
            /\ lpc' = "wait"
  /\ UNCHANGED <<portBusy, demoFound, chromeFound, server, browser>>

\* the result of wait_http_ok ignored
GiveUpAndLaunch ==
  /\ lpc = "wait"
  /\ elapsed >= TimeoutTicks
  /\ lpc' = "launch"
  /\ UNCHANGED <<portBusy, demoFound, chromeFound, server, elapsed, okAt, browser>>

\* the loop condition fails: wait_http_ok returns False, main raises
\* SystemExit("Server did not become ready in time.")
GiveUp ==
  /\ lpc = "wait"
  /\ elapsed >= TimeoutTicks
  /\ lpc' = "exit_timeout"
  /\ UNCHANGED <<portBusy, demoFound, chromeFound, server, elapsed, okAt, browser>>

\* subprocess.Popen(cmd, shell=use_shell); FileNotFoundError -> SystemExit
Popen ==
  /\ lpc = "launch"
  /\ browser' = chromeFound
  /\ lpc' = IF chromeFound THEN "running" ELSE "exit_launch"
  /\ UNCHANGED <<portBusy, demoFound, chromeFound, server, elapsed, okAt>>

\* while True: time.sleep(3600), until KeyboardInterrupt
KeyboardInterrupt ==
  /\ lpc = "running"
  /\ lpc' = "stopped"
  /\ UNCHANGED <<portBusy, demoFound, chromeFound, server, elapsed, okAt, browser>>

\* the icon generator, with the launcher not running
IconIdle ==
  /\ opened = Image(1, 1, <<>>) /\ img = opened /\ mode = "contain"
  /\ size = 0 /\ square = NoCall /\ again = NoCall /\ ipc = "loop"

LauncherIdle ==
  /\ lpc = "port_in_use" /\ portBusy = FALSE /\ demoFound = FALSE
  /\ chromeFound = FALSE /\ server = "none" /\ elapsed = 0 /\ okAt = -1
  /\ browser = FALSE

Init == IconInit /\ LauncherIdle
Next ==
  \/ \E s \in Sizes : Fit(s) /\ UNCHANGED lvars
  \/ FitAgain /\ UNCHANGED lvars
Spec == Init /\ [][Next]_vars

LInit == LauncherInit /\ IconIdle
LNext ==
  \/ port_in_use /\ UNCHANGED ivars
  \/ find_demo_root /\ UNCHANGED ivars
  \/ StartThread /\ UNCHANGED ivars
  \/ serve_forever /\ UNCHANGED ivars
  \/ \E d \in 0..ProbeTicks, ok \in BOOLEAN : Probe(d, ok) /\ UNCHANGED ivars
  \/ GiveUp /\ UNCHANGED ivars
  \/ Popen /\ UNCHANGED ivars
  \/ KeyboardInterrupt /\ UNCHANGED ivars
LauncherSpec == LInit /\ [][LNext]_vars

\* ================================================================ claims
Called == square.status # "none"
Valid == opened.w >= 1 /\ opened.h >= 1 /\ size >= 1
IsContain == NormMode(mode) = "contain"
IsCover == NormMode(mode) = "cover"
\* transparent columns left and right, rows above and below the pasted image
PadLeft == square.x
PadRight == size - square.nw - square.x
PadTop == square.y
PadBottom == size - square.nh - square.y
\* the side of the source that drives the cover scale
Short == Min2(opened.w, opened.h)

\* C1 (as stated): every call with width, height, size >= 1, in any mode,
\* returns an image that is exactly size x size.
C1_SizeInvariant ==
  (Called /\ Valid) =>
     /\ square.status = "ok"
     /\ square.out.w = size
     /\ square.out.h = size

\* C2 (as stated): in contain mode the scaled image fits the square and one
\* of its sides equals size, sources smaller than the square included.
C2_ContainFillsOneSide ==
  (Called /\ Valid /\ IsContain) =>
     /\ square.nw <= size
     /\ square.nh <= size
     /\ (square.nw = size \/ square.nh = size)

\* C2 (amended): in contain mode the call succeeds and the scaled image fits
\* the square; a source that already fits is not scaled at all, and any
\* other source is scaled down until one side equals size.
C2_ContainFit ==
  (Called /\ Valid /\ IsContain) =>
     /\ square.status = "ok"
     /\ square.nw >= 1 /\ square.nw <= size
     /\ square.nh >= 1 /\ square.nh <= size
     /\ IF opened.w <= size /\ opened.h <= size
          THEN square.nw = opened.w /\ square.nh = opened.h
          ELSE square.nw = size \/ square.nh = size

C2_Witness ==
  /\ Called /\ Valid /\ IsContain
  /\ opened.w > size /\ opened.h < opened.w
  /\ square.nw = size /\ square.nh < size

\* C3 (as stated): in cover mode the scaled image is at least size x size,
\* so the centred crop window lies inside it and no output pixel is padding.
C3_CoverFill ==
  (Called /\ Valid /\ IsCover /\ square.status = "ok") =>
     /\ square.nw >= size /\ square.nh >= size
     /\ 0 <= square.x /\ square.x + size <= square.nw
     /\ 0 <= square.y /\ square.y + size <= square.nh

\* C4 (as stated): a call with an empty image or a non-positive size ends in
\* an error and returns no image.
C4_InvalidInput ==
  (Called /\ ~Valid) => (square.status # "ok" /\ square.out = NoImage)

\* C5 (as stated): contain pastes at ((size - nw) // 2, (size - nh) // 2) and
\* an odd leftover puts the extra transparent pixel on the left and top.
C5_ExtraPixelLeftTop ==
  (Called /\ Valid /\ IsContain /\ square.status = "ok") =>
     /\ PadLeft >= PadRight /\ PadLeft - PadRight <= 1
     /\ PadTop >= PadBottom /\ PadTop - PadBottom <= 1

\* C5 (amended): contain pastes at ((size - nw) // 2, (size - nh) // 2); the
\* paddings of the two sides differ by at most 1 and an odd leftover puts the
\* extra transparent pixel on the right and bottom.
C5_ExtraPixelRightBottom ==
  (Called /\ Valid /\ IsContain /\ square.status = "ok") =>
     /\ 2 * square.x <= size - square.nw /\ size - square.nw <= 2 * square.x + 1
     /\ 2 * square.y <= size - square.nh /\ size - square.nh <= 2 * square.y + 1
     /\ PadLeft >= 0 /\ PadRight - PadLeft \in {0, 1}
     /\ PadTop >= 0 /\ PadBottom - PadTop \in {0, 1}

C5_Witness ==
  /\ Called /\ Valid /\ IsContain /\ square.status = "ok"
  /\ (size - square.nw) % 2 = 1
  /\ PadRight = PadLeft + 1

\* C6: a mode other than "contain" and "cover" ("COVER" included) raises no
\* error and gives exactly what mode "contain" gives for the same image and
\* size.
C6_Fallback ==
  (Called /\ mode \notin {"contain", "cover"}) =>
     /\ square = Contain(opened, size)
     /\ Valid => square.status = "ok"

C6_Witness ==
  /\ Called /\ Valid /\ mode = "COVER"
  /\ square.status = "ok"
  /\ square.out # Cover(opened, size).out

\* C7: contain is idempotent: make_square(., N, contain) applied to its own
\* result returns an equal image, scaled by 1 and pasted at (0, 0).
C7_Idempotent ==
  (again.status # "none" /\ Valid /\ IsContain) =>
     /\ again.status = "ok"
     /\ again.out = square.out
     /\ again.nw = size /\ again.nh = size
     /\ again.x = 0 /\ again.y = 0

C7_Witness ==
  /\ again.status = "ok" /\ Valid /\ IsContain
  /\ square.nw < size
  /\ opened.h > size

\* C8: make_square never changes the caller's image, so after any sequence
\* of calls the image is as it was opened and every result is the result
\* for the opened image.
C8_NoMutation ==
  /\ img = opened
  /\ Called => square.out = make_square(opened, size, mode).out

C8_Witness ==
  /\ Called /\ IsContain /\ square.status = "ok"
  /\ square.nh < opened.h
  /\ img = opened

====
